---- MODULE Spec2Model ----
(***************************************************************************)
(* Voice session of src/src/components/VoiceChatbot.tsx.                   *)
(*                                                                         *)
(* The component is a React function component.  Its four useState flags   *)
(* are the committed state; every function of the component body           *)
(* (startListening, sendToBackend, playAudioBlob, the recognizer and audio *)
(* handlers) is a closure over the flags of the render that created it.    *)
(* A closure is modelled by the snapshot of the flags it captured.  The    *)
(* useEffect of lines 24-145 re-runs when isEnabled, isAiSpeaking or       *)
(* isResponding changes: its cleanup stops the recognizer held by          *)
(* recognitionRef and clears the verification timer, and its body installs *)
(* a new recognizer whose handlers capture the new render.                 *)
(* One action is one run of the event loop: a handler up to its next await *)
(* followed by the render and the effect its setState calls cause.         *)
(***************************************************************************)
EXTENDS Integers, Sequences, FiniteSets, TLC

\* Bound on one run: the number of stimuli from outside, that is toggle commands,
\* transcripts, faults (recognizer error or unrequested end, failed fetch,
\* unplayable payload, playback error) and answers of the test endpoint.
MaxStimuli == 4

\* The same for the push-to-talk variant, where every session needs a toggle.
MaxPttStimuli == 6

\* The same for the voice-activity variant: toggles and refused microphones.
MaxVadStimuli == 6

VARIABLES
    isRecording,             \* useState, line 10
    isAiSpeaking,            \* useState, line 11
    isResponding,            \* useState, line 12
    isEnabled,               \* useState, line 13
    recognition,             \* recognitionRef.current: [st, h]; st = "none" for null
    oldRecognitions,         \* recognizers replaced by the effect that still owe their end event
    currentAudioRef,         \* id of the audio element held, 0 for null
    pendingInterruptionRef,  \* line 20
    isListeningRef,          \* line 22
    timers,                  \* pending setTimeout callbacks, in firing order
    inflight,                \* sendToBackend calls awaiting the production fetch
    testInflight,            \* transcripts whose request to TEST_URL has not settled
    audios,                  \* audio elements created by playAudioBlob
    objectURLs,              \* history: revokeObjectURL calls per object URL created
    terminals,               \* history: terminal outcomes handled per audio element
    stimuli,                 \* number of stimuli from outside so far
    results,                 \* number of transcripts delivered so far
    lateTerminal,            \* environment: a stopped audio element still emits a terminal event
    attempts,                \* history: start() calls since the last command or transcript
    errorStarts,             \* history: start() calls by the restart timers of an error, -1: none
    interrupted,             \* history: transcripts in flight at a manual interrupt
    dropped,                 \* history: transcripts that onresult ignored
    isListening,             \* useState of the voice-activity variant, part_000 line 311
    vadIntervalRef,          \* part_000 line 322: id of the interval held, 0 for null
    vadIntervals,            \* part_000 line 398: the setInterval callbacks running
    micRequests,             \* part_000 line 380: getUserMedia calls not yet settled
    lastEvent,               \* history: the event handled last
    startResult              \* history: outcome of recognizer start() in the last event

vars == <<isRecording, isAiSpeaking, isResponding, isEnabled, recognition,
          oldRecognitions, currentAudioRef, pendingInterruptionRef,
          isListeningRef, timers, inflight, testInflight, audios, objectURLs,
          terminals, stimuli, results, lateTerminal, attempts, errorStarts,
          interrupted, dropped, isListening, vadIntervalRef, vadIntervals,
          micRequests, lastEvent, startResult>>

\* The state that only the voice-activity variant of part_000 uses.
vadVars == <<isListening, vadIntervalRef, vadIntervals, micRequests>>

\* History: the event handled last and, for a toggle or a timer, which one.
Ev(e, k) == [ev |-> e, k |-> k]

\* The flags a closure captured from its render.
Snap(en, sp, rs, rec) == [en |-> en, sp |-> sp, rs |-> rs, rec |-> rec]

\* The closure of the latest render.
Cur == Snap(isEnabled, isAiSpeaking, isResponding, isRecording)

\* setTimeout(cb, 300): all delays are equal, so callbacks fire in the order set.
Timer(k, s, t) == [k |-> k, s |-> s, t |-> t]

\* clearTimeout(reinitTimeoutRef.current): only the verification timer is held there.
RECURSIVE ClearVerify(_)
ClearVerify(tms) ==
    IF tms = <<>> THEN <<>>
    ELSE IF Head(tms).k = "verify" THEN ClearVerify(Tail(tms))
    ELSE <<Head(tms)>> \o ClearVerify(Tail(tms))

\* recognition.stop(): an active session ends asynchronously; otherwise a no-op.
Stop(r) == IF r.st = "active" THEN [r EXCEPT !.st = "stopping"] ELSE r

\* Mutant of Pause: the pause() call is missing, the clip keeps sounding.
Pause_Forgotten(as, a, why) == as

\* URL.revokeObjectURL on the object URL of the element with id a (0: no element).
Revoke(urls, a) == IF a = 0 THEN urls ELSE [urls EXCEPT ![a] = @ + 1]

\* One more terminal outcome handled for the element with id a.
Terminal(tls, a) == [tls EXCEPT ![a] = @ + 1]

\* audio.pause() on the element with id a; why is "interrupted" for the pause of
\* line 45 and "stopped" for those of lines 196 and 341.
Pause(as, a, why) ==
    { IF x.t = a /\ x.st = "playing" THEN [x EXCEPT !.st = why]
      ELSE IF x.t = a /\ x.st = "starting" THEN [x EXCEPT !.st = "aborting"]
      ELSE x : x \in as }

\* startListening(retryAttempt) of the render s, on the recognizer r.
\* start() throws InvalidStateError unless the recognizer is idle.
startListening(s, retryAttempt, rec, lis, r, tms) ==
    IF r.st = "none" \/ s.sp \/ s.rs THEN
        [rec |-> rec, lis |-> lis, r |-> r, tms |-> tms, res |-> "none"]
    ELSE IF s.rec THEN
        [rec |-> rec, lis |-> TRUE, r |-> r, tms |-> tms, res |-> "none"]
    ELSE IF r.st = "idle" THEN
        [rec |-> TRUE, lis |-> TRUE, r |-> [r EXCEPT !.st = "active"],
         tms |-> IF retryAttempt = 0
                 THEN Append(ClearVerify(tms), Timer("verify", s, 0))
                 ELSE tms,
         res |-> "started"]
    ELSE
        [rec |-> FALSE, lis |-> FALSE, r |-> r,
         tms |-> IF retryAttempt = 0 /\ s.en
                 THEN Append(tms, Timer("retry", s, 0))
                 ELSE tms,
         res |-> "AlreadyActive"]

\* The render after a handler and the effect of lines 24-145.
Commit(en, sp, rs, rec, r, tms) ==
    LET changed == <<en, sp, rs>> # <<isEnabled, isAiSpeaking, isResponding>>
    IN  /\ isEnabled' = en
        /\ isAiSpeaking' = sp
        /\ isResponding' = rs
        /\ isRecording' = rec
        /\ recognition' = IF changed /\ r.st # "none"
                          THEN [st |-> "idle", h |-> Snap(en, sp, rs, rec)]
                          ELSE r
        /\ oldRecognitions' = IF changed /\ r.st \notin {"idle", "none"}
                              THEN oldRecognitions \cup {r.h}
                              ELSE oldRecognitions
        /\ timers' = IF changed THEN ClearVerify(tms) ELSE tms

\* sendToBackend(userText) of the render s up to its await fetch(PRODUCTION_URL).
Dispatch(s, t) == [s |-> s, t |-> t]

\* The handler part shared by audio.onended, audio.onerror and the two catch
\* blocks: "if (isEnabled && !pendingInterruptionRef.current) setTimeout(...)".
Reinit(k, s, tms) ==
    IF s.en /\ ~pendingInterruptionRef THEN Append(tms, Timer(k, s, 0)) ELSE tms

\* Mutant of OnResult: in the normal flow the transcript is sent while the
\* recognizer keeps running, stopped neither by the handler nor by the re-render.
OnResult_KeepsListening ==
    /\ recognition.st = "active"
    /\ stimuli < MaxStimuli
    /\ stimuli' = stimuli + 1
    /\ LET h == recognition.h
           t == results + 1
       IN  /\ results' = t
           /\ IF h.sp THEN
                  \* interruption, lines 39-76
                  /\ audios' = Pause(audios, currentAudioRef, "interrupted")
                  /\ objectURLs' = Revoke(objectURLs, currentAudioRef)
                  /\ terminals' = terminals
                  /\ currentAudioRef' = 0
                  /\ pendingInterruptionRef' = FALSE
                  /\ inflight' = inflight
                  /\ testInflight' = testInflight
                  /\ Commit(isEnabled,
                            IF currentAudioRef # 0 THEN FALSE ELSE isAiSpeaking,
                            isResponding, FALSE, Stop(recognition),
                            Append(timers, Timer("send", h, t)))
              ELSE IF ~h.rs THEN
                  \* normal flow, lines 79-93
                  /\ inflight' = inflight \cup {Dispatch(h, t)}
                  /\ testInflight' = testInflight \cup {t}
                  /\ isResponding' = TRUE
                  /\ UNCHANGED <<isEnabled, isAiSpeaking, isRecording,
                                 recognition, oldRecognitions, timers>>
                  /\ UNCHANGED <<audios, objectURLs, terminals, currentAudioRef,
                                 pendingInterruptionRef>>
              ELSE
                  /\ Commit(isEnabled, isAiSpeaking, isResponding, isRecording,
                            recognition, timers)
                  /\ UNCHANGED <<audios, objectURLs, terminals, currentAudioRef,
                                 pendingInterruptionRef, inflight,
                                 testInflight>>
    /\ lastEvent' = Ev("result", "")
    /\ startResult' = "none"
    /\ attempts' = 0
    /\ errorStarts' = -1
    /\ interrupted' = interrupted
    /\ dropped' = IF ~recognition.h.sp /\ recognition.h.rs
                  THEN dropped \cup {results + 1} ELSE dropped
    /\ UNCHANGED vadVars
    /\ UNCHANGED <<isListeningRef, lateTerminal>>

\* Mutant of OnResult: a transcript heard while responding is not ignored but
\* sent 300 ms later.
OnResult_QueuesWhileResponding ==
    /\ recognition.st = "active"
    /\ stimuli < MaxStimuli
    /\ stimuli' = stimuli + 1
    /\ LET h == recognition.h
           t == results + 1
       IN  /\ results' = t
           /\ IF h.sp THEN
                  \* interruption, lines 39-76
                  /\ audios' = Pause(audios, currentAudioRef, "interrupted")
                  /\ objectURLs' = Revoke(objectURLs, currentAudioRef)
                  /\ terminals' = terminals
                  /\ currentAudioRef' = 0
                  /\ pendingInterruptionRef' = FALSE
                  /\ inflight' = inflight
                  /\ testInflight' = testInflight
                  /\ Commit(isEnabled,
                            IF currentAudioRef # 0 THEN FALSE ELSE isAiSpeaking,
                            isResponding, FALSE, Stop(recognition),
                            Append(timers, Timer("send", h, t)))
              ELSE IF ~h.rs THEN
                  \* normal flow, lines 79-93
                  /\ inflight' = inflight \cup {Dispatch(h, t)}
                  /\ testInflight' = testInflight \cup {t}
                  /\ Commit(isEnabled, isAiSpeaking, TRUE, FALSE,
                            Stop(recognition), timers)
                  /\ UNCHANGED <<audios, objectURLs, terminals, currentAudioRef,
                                 pendingInterruptionRef>>
              ELSE
                  /\ Commit(isEnabled, isAiSpeaking, isResponding, isRecording,
                            recognition, Append(timers, Timer("send", h, t)))
                  /\ UNCHANGED <<audios, objectURLs, terminals, currentAudioRef,
                                 pendingInterruptionRef, inflight,
                                 testInflight>>
    /\ lastEvent' = Ev("result", "")
    /\ startResult' = "none"
    /\ attempts' = 0
    /\ errorStarts' = -1
    /\ interrupted' = interrupted
    /\ dropped' = IF ~recognition.h.sp /\ recognition.h.rs
                  THEN dropped \cup {results + 1} ELSE dropped
    /\ UNCHANGED vadVars
    /\ UNCHANGED <<isListeningRef, lateTerminal>>

\* recognitionRef.current.onresult, lines 34-97.
OnResult ==
    /\ recognition.st = "active"
    /\ stimuli < MaxStimuli
    /\ stimuli' = stimuli + 1
    /\ LET h == recognition.h
           t == results + 1
       IN  /\ results' = t
           /\ IF h.sp THEN
                  \* interruption, lines 39-76
                  /\ audios' = Pause(audios, currentAudioRef, "interrupted")
                  /\ objectURLs' = Revoke(objectURLs, currentAudioRef)
                  /\ terminals' = terminals
                  /\ currentAudioRef' = 0
                  /\ pendingInterruptionRef' = FALSE
                  /\ inflight' = inflight
                  /\ testInflight' = testInflight
                  /\ Commit(isEnabled,
                            IF currentAudioRef # 0 THEN FALSE ELSE isAiSpeaking,
                            isResponding, FALSE, Stop(recognition),
                            Append(timers, Timer("send", h, t)))
              ELSE IF ~h.rs THEN
                  \* normal flow, lines 79-93
                  /\ inflight' = inflight \cup {Dispatch(h, t)}
                  /\ testInflight' = testInflight \cup {t}
                  /\ Commit(isEnabled, isAiSpeaking, TRUE, FALSE,
                            Stop(recognition), timers)
                  /\ UNCHANGED <<audios, objectURLs, terminals, currentAudioRef,
                                 pendingInterruptionRef>>
              ELSE
                  /\ Commit(isEnabled, isAiSpeaking, isResponding, isRecording,
                            recognition, timers)
                  /\ UNCHANGED <<audios, objectURLs, terminals, currentAudioRef,
                                 pendingInterruptionRef, inflight,
                                 testInflight>>
    /\ lastEvent' = Ev("result", "")
    /\ startResult' = "none"
    /\ attempts' = 0
    /\ errorStarts' = -1
    /\ interrupted' = interrupted
    /\ dropped' = IF ~recognition.h.sp /\ recognition.h.rs
                  THEN dropped \cup {results + 1} ELSE dropped
    /\ UNCHANGED vadVars
    /\ UNCHANGED <<isListeningRef, lateTerminal>>

\* Mutant of OnError: a recognizer error ends the session.
OnError_Disables ==
    /\ recognition.st = "active"
    /\ stimuli < MaxStimuli
    /\ stimuli' = stimuli + 1
    /\ isListeningRef' = FALSE
    /\ Commit(FALSE, isAiSpeaking, isResponding, FALSE,
              [recognition EXCEPT !.st = "stopping"], timers)
    /\ lastEvent' = Ev("recerror", "")
    /\ startResult' = "none"
    /\ UNCHANGED <<currentAudioRef, pendingInterruptionRef, inflight,
                   testInflight, audios, objectURLs, terminals, results,
                   lateTerminal, attempts>>
    /\ errorStarts' = IF \E i \in 1..Len(timers) : timers[i].k \in {"onerror", "onend"}
                      THEN -1 ELSE 0
    /\ interrupted' = interrupted
    /\ dropped' = dropped
    /\ UNCHANGED vadVars

\* recognitionRef.current.onerror, lines 107-115.  The recognizer fires its
\* end event after the error event.
OnError ==
    /\ recognition.st = "active"
    /\ stimuli < MaxStimuli
    /\ stimuli' = stimuli + 1
    /\ isListeningRef' = FALSE
    /\ Commit(isEnabled, isAiSpeaking, isResponding, FALSE,
              [recognition EXCEPT !.st = "stopping"],
              Reinit("onerror", recognition.h, timers))
    /\ lastEvent' = Ev("recerror", "")
    /\ startResult' = "none"
    /\ UNCHANGED <<currentAudioRef, pendingInterruptionRef, inflight,
                   testInflight, audios, objectURLs, terminals, results,
                   lateTerminal, attempts>>
    /\ errorStarts' = IF \E i \in 1..Len(timers) : timers[i].k \in {"onerror", "onend"}
                      THEN -1 ELSE 0
    /\ interrupted' = interrupted
    /\ dropped' = dropped
    /\ UNCHANGED vadVars

\* The body of recognitionRef.current.onend, lines 117-129, for handlers of render h.
OnEndTimers(h, tms) ==
    IF h.en /\ ~h.sp /\ ~h.rs /\ ~pendingInterruptionRef
    THEN Append(tms, Timer("onend", h, 0))
    ELSE tms

\* recognitionRef.current.onend, lines 117-129, on the recognizer held.
OnEndHeld ==
    /\ isListeningRef' = FALSE
    /\ Commit(isEnabled, isAiSpeaking, isResponding, FALSE,
              [recognition EXCEPT !.st = "idle"],
              OnEndTimers(recognition.h, timers))
    /\ lastEvent' = Ev("recend", "")
    /\ startResult' = "none"
    /\ UNCHANGED <<currentAudioRef, pendingInterruptionRef, inflight,
                   testInflight, audios, objectURLs, terminals, results,
                   lateTerminal>>

\* The end event of the recognizer held, after stop() or an error.
OnEnd ==
    /\ recognition.st = "stopping"
    /\ stimuli' = stimuli
    /\ attempts' = attempts
    /\ errorStarts' = errorStarts
    /\ interrupted' = interrupted
    /\ dropped' = dropped
    /\ UNCHANGED vadVars
    /\ OnEndHeld

\* The recognition service ends the session by itself, without an error: the
\* session did not fail, so the count of consecutive attempts starts again.
OnSessionEnd ==
    /\ recognition.st = "active"
    /\ stimuli < MaxStimuli
    /\ stimuli' = stimuli + 1
    /\ attempts' = 0
    /\ errorStarts' = -1
    /\ interrupted' = interrupted
    /\ dropped' = dropped
    /\ UNCHANGED vadVars
    /\ OnEndHeld

\* onend of a recognizer that the effect cleanup stopped and replaced.
OnEndOld ==
    \E h \in oldRecognitions :
        /\ isListeningRef' = FALSE
        /\ isRecording' = FALSE
        /\ timers' = OnEndTimers(h, timers)
        /\ oldRecognitions' = oldRecognitions \ {h}
        /\ lastEvent' = Ev("oldrecend", "")
        /\ startResult' = "none"
        /\ UNCHANGED <<isAiSpeaking, isResponding, isEnabled, recognition,
                       currentAudioRef, pendingInterruptionRef, inflight,
                       testInflight, audios, objectURLs, terminals, stimuli,
                       results, lateTerminal, attempts>>
        /\ errorStarts' = IF OnEndTimers(h, timers) # timers THEN -1 ELSE errorStarts
        /\ interrupted' = interrupted
        /\ dropped' = dropped
        /\ UNCHANGED vadVars

\* What stopAiAudio reads and writes: the handle, the audio elements, the object
\* URLs, isAiSpeaking as it will be committed, and isListeningRef.
PlaybackState ==
    [cur |-> currentAudioRef, as |-> audios, urls |-> objectURLs,
     sp |-> isAiSpeaking, lis |-> isListeningRef]

\* Mutant of stopAiAudio: line 205, currentAudioRef.current = null, is missing.
stopAiAudio_KeepsHandle(p) ==
    IF p.cur = 0 THEN p
    ELSE [cur |-> p.cur, as |-> Pause(p.as, p.cur, "stopped"),
          urls |-> Revoke(p.urls, p.cur), sp |-> FALSE, lis |-> FALSE]

\* stopAiAudio, lines 192-211.
stopAiAudio(p) ==
    IF p.cur = 0 THEN p
    ELSE [cur |-> 0, as |-> Pause(p.as, p.cur, "stopped"),
          urls |-> Revoke(p.urls, p.cur), sp |-> FALSE, lis |-> FALSE]

\* Mutant of ManualInterrupt: the setTimeout of lines 228-231 is missing.
ManualInterrupt_NoTimer ==
    LET o == stopAiAudio(PlaybackState)
    IN  /\ pendingInterruptionRef' = TRUE
        /\ audios' = o.as
        /\ objectURLs' = o.urls
        /\ terminals' = terminals
        /\ currentAudioRef' = o.cur
        /\ isListeningRef' = o.lis
        /\ Commit(TRUE, o.sp, FALSE, isRecording, recognition,
                  timers)
        /\ lastEvent' = Ev("toggle", "interrupt")
        /\ interrupted' = interrupted \cup {d.t : d \in inflight}
        /\ dropped' = dropped
        /\ UNCHANGED vadVars

\* toggleAssistant while the AI is speaking or a dispatch is in flight: the manual
\* interrupt of lines 219-233, with stopAiAudio of lines 192-211.
ManualInterrupt ==
    LET o == stopAiAudio(PlaybackState)
    IN  /\ pendingInterruptionRef' = TRUE
        /\ audios' = o.as
        /\ objectURLs' = o.urls
        /\ terminals' = terminals
        /\ currentAudioRef' = o.cur
        /\ isListeningRef' = o.lis
        /\ Commit(TRUE, o.sp, FALSE, isRecording, recognition,
                  Append(timers, Timer("interrupt", Cur, 0)))
        /\ lastEvent' = Ev("toggle", "interrupt")
        /\ interrupted' = interrupted \cup {d.t : d \in inflight}
        /\ dropped' = dropped
        /\ UNCHANGED vadVars

\* Mutant of TurnOff: setIsRecording(false) of line 238 is missing.
TurnOff_KeepsRecording ==
    /\ pendingInterruptionRef' = FALSE
    /\ Commit(FALSE, isAiSpeaking, isResponding, isRecording, Stop(recognition),
              timers)
    /\ lastEvent' = Ev("toggle", "disable")
    /\ UNCHANGED <<audios, objectURLs, terminals, currentAudioRef,
                   isListeningRef>>
    /\ interrupted' = interrupted
    /\ dropped' = dropped
    /\ UNCHANGED vadVars

\* toggleAssistant while enabled: "Turn OFF assistant", lines 235-245.
TurnOff ==
    /\ pendingInterruptionRef' = FALSE
    /\ Commit(FALSE, isAiSpeaking, isResponding, FALSE, Stop(recognition), timers)
    /\ lastEvent' = Ev("toggle", "disable")
    /\ UNCHANGED <<audios, objectURLs, terminals, currentAudioRef,
                   isListeningRef>>
    /\ interrupted' = interrupted
    /\ dropped' = dropped
    /\ UNCHANGED vadVars

\* Mutant of TurnOn: the setTimeout of line 250 is missing.
TurnOn_NoStart ==
    /\ pendingInterruptionRef' = FALSE
    /\ Commit(TRUE, isAiSpeaking, isResponding, isRecording, recognition, timers)
    /\ lastEvent' = Ev("toggle", "enable")
    /\ UNCHANGED <<audios, objectURLs, terminals, currentAudioRef, isListeningRef>>
    /\ interrupted' = interrupted
    /\ dropped' = dropped
    /\ UNCHANGED vadVars

\* toggleAssistant while disabled: "Turn ON assistant", lines 246-252.
TurnOn ==
    /\ pendingInterruptionRef' = FALSE
    /\ Commit(TRUE, isAiSpeaking, isResponding, isRecording, recognition,
              Append(timers, Timer("enable", Cur, 0)))
    /\ lastEvent' = Ev("toggle", "enable")
    /\ UNCHANGED <<audios, objectURLs, terminals, currentAudioRef,
                   isListeningRef>>
    /\ interrupted' = interrupted
    /\ dropped' = dropped
    /\ UNCHANGED vadVars

\* toggleAssistant without a recognizer: the early return of lines 214-217.
Unsupported ==
    /\ lastEvent' = Ev("toggle", "unsupported")
    /\ UNCHANGED <<isRecording, isAiSpeaking, isResponding, isEnabled,
                   recognition, oldRecognitions, currentAudioRef,
                   pendingInterruptionRef, isListeningRef, timers, audios,
                   objectURLs, terminals>>
    /\ interrupted' = interrupted
    /\ dropped' = dropped
    /\ UNCHANGED vadVars

\* Mutant of toggleAssistant: the check of lines 214-217 is missing.
toggleAssistant_NoRecognizerCheck ==
    /\ stimuli < MaxStimuli
    /\ stimuli' = stimuli + 1
    /\ IF isAiSpeaking \/ isResponding THEN ManualInterrupt
       ELSE IF isEnabled THEN TurnOff
       ELSE TurnOn
    /\ startResult' = "none"
    /\ attempts' = 0
    /\ errorStarts' = -1
    /\ UNCHANGED <<inflight, testInflight, results, lateTerminal>>

\* toggleAssistant, lines 213-253, called from the button of the latest render.
toggleAssistant ==
    /\ stimuli < MaxStimuli
    /\ stimuli' = stimuli + 1
    /\ IF recognition.st = "none" THEN Unsupported
       ELSE IF isAiSpeaking \/ isResponding THEN ManualInterrupt
       ELSE IF isEnabled THEN TurnOff
       ELSE TurnOn
    /\ startResult' = "none"
    /\ attempts' = 0
    /\ errorStarts' = -1
    /\ UNCHANGED <<inflight, testInflight, results, lateTerminal>>

\* The kinds of timer whose callback is "startListening()".
StartKinds == {"enable", "onerror", "onend", "dispatchErr", "ended", "audioErr",
               "playErr", "interrupt"}

\* The oldest pending setTimeout callback runs.
FireTimer ==
    /\ timers # <<>>
    /\ LET tm == Head(timers)
           rest == Tail(timers)
           s == tm.s
       IN  IF tm.k = "send" THEN
               \* lines 71-73: sendToBackend(transcript)
               /\ inflight' = inflight \cup {Dispatch(s, tm.t)}
               /\ testInflight' = testInflight \cup {tm.t}
               /\ Commit(isEnabled, isAiSpeaking, TRUE, isRecording,
                         recognition, rest)
               /\ startResult' = "none"
               /\ UNCHANGED <<pendingInterruptionRef, isListeningRef, attempts,
                              errorStarts, interrupted, dropped, vadVars>>
           ELSE
               LET run == tm.k \in StartKinds \/ tm.k = "retry"
                          \/ (tm.k = "verify" /\ ~s.rec /\ s.en /\ ~s.sp /\ ~s.rs)
                   o == IF run
                        THEN startListening(s, IF tm.k \in StartKinds THEN 0 ELSE 1,
                                            isRecording, isListeningRef,
                                            recognition, rest)
                        ELSE [rec |-> isRecording, lis |-> isListeningRef,
                              r |-> recognition, tms |-> rest, res |-> "none"]
               IN  /\ pendingInterruptionRef' =
                          IF tm.k = "interrupt" THEN FALSE ELSE pendingInterruptionRef
                   /\ isListeningRef' = o.lis
                   /\ Commit(isEnabled, isAiSpeaking, isResponding, o.rec, o.r, o.tms)
                   /\ startResult' = o.res
                   /\ attempts' = IF o.res = "none" THEN attempts ELSE attempts + 1
                   /\ errorStarts' = IF /\ errorStarts >= 0
                                        /\ tm.k \in {"onerror", "onend"}
                                        /\ o.res # "none"
                                     THEN errorStarts + 1
                                     ELSE errorStarts
                   /\ interrupted' = interrupted
                   /\ dropped' = dropped
                   /\ UNCHANGED vadVars
                   /\ inflight' = inflight
                   /\ testInflight' = testInflight
    /\ lastEvent' = Ev("timer", Head(timers).k)
    /\ UNCHANGED <<currentAudioRef, audios, objectURLs, terminals, stimuli,
                   results, lateTerminal>>

\* Mutant of TestSettle: the request to TEST_URL is awaited like the production
\* one, so that its failure ends the dispatch.
TestSettle_Awaited ==
    \E t \in testInflight, ok \in BOOLEAN :
        /\ stimuli < MaxStimuli
        /\ stimuli' = stimuli + 1
        /\ testInflight' = testInflight \ {t}
        /\ IF ok
           THEN UNCHANGED <<isRecording, isAiSpeaking, isResponding, isEnabled,
                            recognition, oldRecognitions, timers>>
           ELSE Commit(isEnabled, isAiSpeaking, FALSE, isRecording, recognition,
                       Reinit("dispatchErr", Cur, timers))
        /\ UNCHANGED <<currentAudioRef, pendingInterruptionRef, isListeningRef,
                       inflight, audios, objectURLs, terminals, results,
                       lateTerminal, attempts,
                       errorStarts, interrupted, dropped, vadVars>>
        /\ lastEvent' = Ev("testsettle", "")
        /\ startResult' = "none"

\* The fire-and-forget request to TEST_URL of lines 268-274 settles: it resolves
\* (ok) or rejects, and the rejection is swallowed by ".catch(() => {})".
TestSettle ==
    \E t \in testInflight, ok \in BOOLEAN :
        /\ stimuli < MaxStimuli
        /\ stimuli' = stimuli + 1
        /\ testInflight' = testInflight \ {t}
        /\ UNCHANGED <<isRecording, isAiSpeaking, isResponding, isEnabled,
                       recognition, oldRecognitions, timers>>
        /\ UNCHANGED <<currentAudioRef, pendingInterruptionRef, isListeningRef,
                       inflight, audios, objectURLs, terminals, results,
                       lateTerminal, attempts,
                       errorStarts, interrupted, dropped, vadVars>>
        /\ lastEvent' = Ev("testsettle", "")
        /\ startResult' = "none"

\* An audio element created by playAudioBlob of render s for the reply to
\* transcript t.  st: "starting" while audio.play() is pending, "playing" once it
\* resolved and onended/onerror are attached (lines 357-390), "aborting" when
\* paused while play() was pending, "interrupted" or "stopped" when paused while
\* playing.
Audio(s, t, st) == [s |-> s, t |-> t, st |-> st]

\* The content types a successful response can carry: "" stands for one that
\* names audio, mp3 or mpeg (line 297), "other" for any other or none.
ContentTypes == {"", "other"}

\* Mutant of FetchOk: a successful response without an audio content type is
\* dropped, only the finally block runs.
FetchOk_DropsNonAudio ==
    \E d \in inflight, ct \in ContentTypes :
        /\ inflight' = inflight \ {d}
        /\ testInflight' = testInflight
        /\ IF ct = ""
           THEN /\ audios' = Pause(audios, currentAudioRef, "stopped")
                              \cup {Audio(d.s, d.t, "starting")}
                /\ objectURLs' = objectURLs @@ (d.t :> 0)
                /\ terminals' = terminals @@ (d.t :> 0)
                /\ currentAudioRef' = d.t
                /\ Commit(isEnabled, TRUE, FALSE, isRecording, recognition, timers)
           ELSE /\ Commit(isEnabled, isAiSpeaking, FALSE, isRecording, recognition,
                          timers)
                /\ UNCHANGED <<audios, objectURLs, terminals, currentAudioRef>>
        /\ lastEvent' = Ev("reply", ct)
        /\ startResult' = "none"
        /\ UNCHANGED <<pendingInterruptionRef, isListeningRef, stimuli, results,
                       lateTerminal, attempts,
                       errorStarts, interrupted, dropped, vadVars>>

\* The production fetch of dispatch d resolves with response.ok and the body is
\* read: sendToBackend lines 292-317 and playAudioBlob lines 334-357.  Both
\* branches on the content type call playAudioBlob with the body.
FetchOk ==
    \E d \in inflight, ct \in ContentTypes :
        /\ inflight' = inflight \ {d}
        /\ testInflight' = testInflight
        /\ audios' = Pause(audios, currentAudioRef, "stopped")
                     \cup {Audio(d.s, d.t, "starting")}
        /\ objectURLs' = objectURLs @@ (d.t :> 0)
        /\ terminals' = terminals @@ (d.t :> 0)
        /\ currentAudioRef' = d.t
        /\ Commit(isEnabled, TRUE, FALSE, isRecording, recognition, timers)
        /\ lastEvent' = Ev("reply", ct)
        /\ startResult' = "none"
        /\ UNCHANGED <<pendingInterruptionRef, isListeningRef, stimuli, results,
                       lateTerminal, attempts,
                       errorStarts, interrupted, dropped, vadVars>>

\* The production fetch of dispatch d rejects or returns a non-success status:
\* sendToBackend lines 318-331.
FetchFail ==
    \E d \in inflight :
        /\ stimuli < MaxStimuli
        /\ stimuli' = stimuli + 1
        /\ inflight' = inflight \ {d}
        /\ testInflight' = testInflight
        /\ Commit(isEnabled, isAiSpeaking, FALSE, isRecording, recognition,
                  Reinit("dispatchErr", d.s, timers))
        /\ lastEvent' = Ev("replyfail", "")
        /\ startResult' = "none"
        /\ UNCHANGED <<currentAudioRef, pendingInterruptionRef, isListeningRef,
                       audios, objectURLs, terminals, results, lateTerminal,
                       attempts,
                       errorStarts, interrupted, dropped, vadVars>>

\* audio.play() resolves: the handlers are attached (lines 359-390) and
\* sendToBackend reaches its finally block (line 330).
PlayResolve ==
    \E a \in audios :
        /\ a.st = "starting"
        /\ audios' = (audios \ {a}) \cup {[a EXCEPT !.st = "playing"]}
        /\ UNCHANGED <<objectURLs, terminals>>
        /\ Commit(isEnabled, isAiSpeaking, FALSE, isRecording, recognition, timers)
        /\ lastEvent' = Ev("playing", "")
        /\ startResult' = "none"
        /\ UNCHANGED <<currentAudioRef, pendingInterruptionRef, isListeningRef,
                       inflight, testInflight, stimuli, results, lateTerminal,
                       attempts,
                       errorStarts, interrupted, dropped, vadVars>>

\* The catch of playAudioBlob, lines 391-400, then the finally of sendToBackend,
\* line 330, for the element a whose play() rejected.
PlayCatch(a) ==
    /\ audios' = audios \ {a}
    /\ objectURLs' = objectURLs
    /\ terminals' = Terminal(terminals, a.t)
    /\ Commit(isEnabled, FALSE, FALSE, isRecording, recognition,
              Reinit("playErr", a.s, timers))
    /\ lastEvent' = Ev("playreject", "")
    /\ startResult' = "none"
    /\ UNCHANGED <<currentAudioRef, pendingInterruptionRef, isListeningRef,
                   inflight, testInflight, results, lateTerminal, attempts,
                   errorStarts, interrupted, dropped, vadVars>>

\* audio.play() rejects because the element was paused while it was pending.
PlayAbort ==
    \E a \in audios :
        /\ a.st = "aborting"
        /\ stimuli' = stimuli
        /\ PlayCatch(a)

\* audio.play() rejects because the payload cannot be played.
PlayReject ==
    \E a \in audios :
        /\ a.st = "starting"
        /\ stimuli < MaxStimuli
        /\ stimuli' = stimuli + 1
        /\ PlayCatch(a)

\* audio.onended of element a, lines 359-377.
OnEnded(a) ==
    /\ audios' = audios \ {a}
    /\ objectURLs' = Revoke(objectURLs, a.t)
    /\ terminals' = Terminal(terminals, a.t)
    /\ currentAudioRef' = 0
    /\ pendingInterruptionRef' = FALSE
    /\ Commit(isEnabled, FALSE, isResponding, isRecording, recognition,
              Reinit("ended", a.s, timers))
    /\ startResult' = "none"
    /\ UNCHANGED <<isListeningRef, inflight, testInflight, results,
                   lateTerminal, attempts,
                   errorStarts, interrupted, dropped, vadVars>>

\* Mutant of OnAudioError: the element goes on playing after its error event.
OnAudioError_KeepsPlaying(a) ==
    /\ audios' = audios
    /\ objectURLs' = Revoke(objectURLs, a.t)
    /\ terminals' = Terminal(terminals, a.t)
    /\ currentAudioRef' = 0
    /\ Commit(isEnabled, FALSE, isResponding, isRecording, recognition,
              Reinit("audioErr", a.s, timers))
    /\ startResult' = "none"
    /\ UNCHANGED <<pendingInterruptionRef, isListeningRef, inflight,
                   testInflight, results, lateTerminal, attempts,
                   errorStarts, interrupted, dropped, vadVars>>

\* audio.onerror of element a, lines 379-390.
OnAudioError(a) ==
    /\ audios' = audios \ {a}
    /\ objectURLs' = Revoke(objectURLs, a.t)
    /\ terminals' = Terminal(terminals, a.t)
    /\ currentAudioRef' = 0
    /\ Commit(isEnabled, FALSE, isResponding, isRecording, recognition,
              Reinit("audioErr", a.s, timers))
    /\ startResult' = "none"
    /\ UNCHANGED <<pendingInterruptionRef, isListeningRef, inflight,
                   testInflight, results, lateTerminal, attempts,
                   errorStarts, interrupted, dropped, vadVars>>

\* A playing clip reaches its end.
AudioEnded ==
    \E a \in audios :
        /\ a.st = "playing"
        /\ stimuli' = stimuli
        /\ OnEnded(a)
        /\ lastEvent' = Ev("audioended", "")

\* A playing clip fails.
AudioError ==
    \E a \in audios :
        /\ a.st = "playing"
        /\ stimuli < MaxStimuli
        /\ stimuli' = stimuli + 1
        /\ OnAudioError(a)
        /\ lastEvent' = Ev("audioerror", "")

\* A clip the controller stopped emits a terminal event all the same.
LateEnded ==
    /\ lateTerminal
    /\ stimuli' = stimuli
    /\ \E a \in audios :
           /\ a.st \in {"stopped", "interrupted"}
           /\ OnEnded(a)
           /\ lastEvent' = Ev("lateended", "")

LateError ==
    /\ lateTerminal
    /\ stimuli' = stimuli
    /\ \E a \in audios :
           /\ a.st \in {"stopped", "interrupted"}
           /\ OnAudioError(a)
           /\ lastEvent' = Ev("lateerror", "")

\* The state after the first render and the first run of the effect: the
\* recognizer is installed if the browser has one (line 26), else the ref is null.
Init ==
    /\ isRecording = FALSE
    /\ isAiSpeaking = FALSE
    /\ isResponding = FALSE
    /\ isEnabled = FALSE
    /\ recognition \in {[st |-> st, h |-> Snap(FALSE, FALSE, FALSE, FALSE)] :
                           st \in {"idle", "none"}}
    /\ oldRecognitions = {}
    /\ currentAudioRef = 0
    /\ pendingInterruptionRef = FALSE
    /\ isListeningRef = FALSE
    /\ timers = <<>>
    /\ inflight = {}
    /\ testInflight = {}
    /\ audios = {}
    /\ objectURLs = <<>>
    /\ terminals = <<>>
    /\ stimuli = 0
    /\ results = 0
    /\ lateTerminal = FALSE
    /\ attempts = 0
    /\ errorStarts = -1
    /\ interrupted = {}
    /\ dropped = {}
    /\ isListening = FALSE
    /\ vadIntervalRef = 0
    /\ vadIntervals = {}
    /\ micRequests = {}
    /\ lastEvent = Ev("init", "")
    /\ startResult = "none"

\* As Init, in an environment where stopped clips still emit terminal events.
InitLate ==
    /\ isRecording = FALSE
    /\ isAiSpeaking = FALSE
    /\ isResponding = FALSE
    /\ isEnabled = FALSE
    /\ recognition \in {[st |-> st, h |-> Snap(FALSE, FALSE, FALSE, FALSE)] :
                           st \in {"idle", "none"}}
    /\ oldRecognitions = {}
    /\ currentAudioRef = 0
    /\ pendingInterruptionRef = FALSE
    /\ isListeningRef = FALSE
    /\ timers = <<>>
    /\ inflight = {}
    /\ testInflight = {}
    /\ audios = {}
    /\ objectURLs = <<>>
    /\ terminals = <<>>
    /\ stimuli = 0
    /\ results = 0
    /\ lateTerminal = TRUE
    /\ attempts = 0
    /\ errorStarts = -1
    /\ interrupted = {}
    /\ dropped = {}
    /\ isListening = FALSE
    /\ vadIntervalRef = 0
    /\ vadIntervals = {}
    /\ micRequests = {}
    /\ lastEvent = Ev("init", "")
    /\ startResult = "none"

Next ==
    \/ toggleAssistant
    \/ FireTimer
    \/ OnResult
    \/ OnError
    \/ OnEnd
    \/ OnSessionEnd
    \/ OnEndOld
    \/ FetchOk
    \/ FetchFail
    \/ PlayResolve
    \/ PlayAbort
    \/ PlayReject
    \/ AudioEnded
    \/ AudioError
    \/ TestSettle

NextLate == Next \/ LateEnded \/ LateError

Spec == Init /\ [][Next]_vars

SpecLate == InitLate /\ [][NextLate]_vars

\* What the platform guarantees to happen: a timer set fires, a stopped recognizer
\* delivers its end event, a fetch settles, a play() promise settles and a playing
\* clip reaches its end.  Commands, transcripts and faults are not guaranteed.
Fairness ==
    /\ WF_vars(FireTimer)
    /\ WF_vars(OnEnd)
    /\ WF_vars(OnEndOld)
    /\ WF_vars(FetchOk)
    /\ WF_vars(PlayResolve)
    /\ WF_vars(PlayAbort)
    /\ WF_vars(AudioEnded)

FairSpec == Init /\ [][Next]_vars /\ Fairness

(***************************************************************************)
(* The push-to-talk variant: the first component of src/unnamed/part_000.  *)
(* Its effect has no dependencies, so the recognizer and its handlers are  *)
(* those of the first render.  It has no isEnabled and sets no timers.     *)
(***************************************************************************)

\* The state the push-to-talk variant does not have.
pttUnused == <<isEnabled, oldRecognitions, pendingInterruptionRef, isListeningRef,
               timers, testInflight, terminals, lateTerminal, attempts,
               errorStarts, interrupted, dropped, vadVars>>

\* The render that created the recognizer handlers, part_000 lines 19-54.
Ptt_FirstRender == Snap(FALSE, FALSE, FALSE, FALSE)

\* stopAiAudio, part_000 lines 56-73.
Ptt_stopAiAudio ==
    IF currentAudioRef # 0
    THEN /\ audios' = Pause(audios, currentAudioRef, "stopped")
         /\ objectURLs' = Revoke(objectURLs, currentAudioRef)
         /\ currentAudioRef' = 0
         /\ isAiSpeaking' = FALSE
    ELSE UNCHANGED <<audios, objectURLs, currentAudioRef, isAiSpeaking>>

\* Mutant of Ptt_toggleRecording: the return of line 85 is missing, so a toggle
\* while the AI is speaking goes on to start or stop recording.
Ptt_toggleRecording_FallsThrough ==
    /\ ~isResponding
    /\ stimuli < MaxPttStimuli
    /\ stimuli' = stimuli + 1
    /\ IF recognition.st = "none" THEN
           /\ lastEvent' = Ev("toggle", "unsupported")
           /\ startResult' = "none"
           /\ UNCHANGED <<isRecording, isAiSpeaking, recognition, currentAudioRef,
                          audios, objectURLs>>
       ELSE IF isAiSpeaking /\ isRecording THEN
           /\ Ptt_stopAiAudio
           /\ recognition' = Stop(recognition)
           /\ isRecording' = FALSE
           /\ lastEvent' = Ev("toggle", "interrupt")
           /\ startResult' = "none"
       ELSE IF isAiSpeaking THEN
           /\ Ptt_stopAiAudio
           /\ recognition' = IF recognition.st = "idle"
                             THEN [recognition EXCEPT !.st = "active"]
                             ELSE recognition
           /\ isRecording' = (recognition.st = "idle")
           /\ lastEvent' = Ev("toggle", "interrupt")
           /\ startResult' = IF recognition.st = "idle" THEN "started"
                             ELSE "AlreadyActive"
       ELSE IF isRecording THEN
           /\ recognition' = Stop(recognition)
           /\ isRecording' = FALSE
           /\ lastEvent' = Ev("toggle", "stop")
           /\ startResult' = "none"
           /\ UNCHANGED <<isAiSpeaking, currentAudioRef, audios, objectURLs>>
       ELSE
           /\ recognition' = IF recognition.st = "idle"
                             THEN [recognition EXCEPT !.st = "active"]
                             ELSE recognition
           /\ isRecording' = (recognition.st = "idle")
           /\ lastEvent' = Ev("toggle", "start")
           /\ startResult' = IF recognition.st = "idle" THEN "started"
                             ELSE "AlreadyActive"
           /\ UNCHANGED <<isAiSpeaking, currentAudioRef, audios, objectURLs>>
    /\ UNCHANGED <<isResponding, inflight, results>>
    /\ UNCHANGED pttUnused

\* toggleRecording, part_000 lines 75-97, from the button of the latest render,
\* which is disabled while isResponding (line 255).  start() on a recognizer
\* that is not idle throws before setIsRecording(true) is reached.
Ptt_toggleRecording ==
    /\ ~isResponding
    /\ stimuli < MaxPttStimuli
    /\ stimuli' = stimuli + 1
    /\ IF recognition.st = "none" THEN
           /\ lastEvent' = Ev("toggle", "unsupported")
           /\ startResult' = "none"
           /\ UNCHANGED <<isRecording, isAiSpeaking, recognition, currentAudioRef,
                          audios, objectURLs>>
       ELSE IF isAiSpeaking THEN
           /\ Ptt_stopAiAudio
           /\ lastEvent' = Ev("toggle", "interrupt")
           /\ startResult' = "none"
           /\ UNCHANGED <<isRecording, recognition>>
       ELSE IF isRecording THEN
           /\ recognition' = Stop(recognition)
           /\ isRecording' = FALSE
           /\ lastEvent' = Ev("toggle", "stop")
           /\ startResult' = "none"
           /\ UNCHANGED <<isAiSpeaking, currentAudioRef, audios, objectURLs>>
       ELSE
           /\ recognition' = IF recognition.st = "idle"
                             THEN [recognition EXCEPT !.st = "active"]
                             ELSE recognition
           /\ isRecording' = (recognition.st = "idle")
           /\ lastEvent' = Ev("toggle", "start")
           /\ startResult' = IF recognition.st = "idle" THEN "started"
                             ELSE "AlreadyActive"
           /\ UNCHANGED <<isAiSpeaking, currentAudioRef, audios, objectURLs>>
    /\ UNCHANGED <<isResponding, inflight, results>>
    /\ UNCHANGED pttUnused

\* onresult, part_000 lines 28-34, and sendToBackend up to its await, lines
\* 99-128.  The recognizer is not continuous: the session ends after its result.
Ptt_OnResult ==
    /\ recognition.st = "active"
    /\ stimuli < MaxPttStimuli
    /\ stimuli' = stimuli + 1
    /\ results' = results + 1
    /\ recognition' = [recognition EXCEPT !.st = "stopping"]
    /\ inflight' = inflight \cup {Dispatch(Ptt_FirstRender, results + 1)}
    /\ isResponding' = TRUE
    /\ lastEvent' = Ev("result", "")
    /\ startResult' = "none"
    /\ UNCHANGED <<isRecording, isAiSpeaking, currentAudioRef, audios, objectURLs>>
    /\ UNCHANGED pttUnused

\* onerror, part_000 lines 36-39; the end event follows.
Ptt_OnError ==
    /\ recognition.st = "active"
    /\ stimuli < MaxPttStimuli
    /\ stimuli' = stimuli + 1
    /\ recognition' = [recognition EXCEPT !.st = "stopping"]
    /\ isRecording' = FALSE
    /\ lastEvent' = Ev("recerror", "")
    /\ startResult' = "none"
    /\ UNCHANGED <<isAiSpeaking, isResponding, currentAudioRef, inflight, audios,
                   objectURLs, results>>
    /\ UNCHANGED pttUnused

\* onend, part_000 lines 41-43, after stop(), a result or an error.
Ptt_OnEnd ==
    /\ recognition.st = "stopping"
    /\ recognition' = [recognition EXCEPT !.st = "idle"]
    /\ isRecording' = FALSE
    /\ lastEvent' = Ev("recend", "")
    /\ startResult' = "none"
    /\ UNCHANGED <<isAiSpeaking, isResponding, currentAudioRef, inflight, audios,
                   objectURLs, results, stimuli>>
    /\ UNCHANGED pttUnused

\* The production fetch resolves with response.ok: sendToBackend lines 135-159
\* and playAudioBlob lines 172-201, whatever the content type.  playAudioBlob
\* is the one of the first render, so the isRecording of line 194 is that
\* render's.
Ptt_FetchOk ==
    \E d \in inflight, ct \in ContentTypes :
        /\ inflight' = inflight \ {d}
        /\ audios' = Pause(audios, currentAudioRef, "stopped")
                     \cup {Audio(d.s, d.t, "starting")}
        /\ objectURLs' = objectURLs @@ (d.t :> 0)
        /\ currentAudioRef' = d.t
        /\ isAiSpeaking' = TRUE
        /\ isResponding' = FALSE
        /\ recognition' = IF d.s.rec THEN Stop(recognition) ELSE recognition
        /\ isRecording' = IF d.s.rec THEN FALSE ELSE isRecording
        /\ lastEvent' = Ev("reply", ct)
        /\ startResult' = "none"
        /\ UNCHANGED <<stimuli, results>>
        /\ UNCHANGED pttUnused

\* The production fetch rejects or returns an error status: lines 160-169.
Ptt_FetchFail ==
    \E d \in inflight :
        /\ stimuli < MaxPttStimuli
        /\ stimuli' = stimuli + 1
        /\ inflight' = inflight \ {d}
        /\ isResponding' = FALSE
        /\ lastEvent' = Ev("replyfail", "")
        /\ startResult' = "none"
        /\ UNCHANGED <<isRecording, isAiSpeaking, recognition, currentAudioRef,
                       audios, objectURLs, results>>
        /\ UNCHANGED pttUnused

\* audio.play() resolves: the handlers of lines 203-216 are attached and
\* sendToBackend reaches its finally block.
Ptt_PlayResolve ==
    \E a \in audios :
        /\ a.st = "starting"
        /\ audios' = (audios \ {a}) \cup {[a EXCEPT !.st = "playing"]}
        /\ isResponding' = FALSE
        /\ lastEvent' = Ev("playing", "")
        /\ startResult' = "none"
        /\ UNCHANGED <<isRecording, isAiSpeaking, recognition, currentAudioRef,
                       inflight, objectURLs, results, stimuli>>
        /\ UNCHANGED pttUnused

\* audio.play() rejects, because the payload cannot be played or because the
\* element was paused meanwhile: the catch of lines 217-220.
Ptt_PlayReject ==
    \E a \in audios :
        /\ \/ a.st = "aborting" /\ stimuli' = stimuli
           \/ a.st = "starting" /\ stimuli < MaxPttStimuli /\ stimuli' = stimuli + 1
        /\ audios' = audios \ {a}
        /\ isAiSpeaking' = FALSE
        /\ isResponding' = FALSE
        /\ lastEvent' = Ev("playreject", "")
        /\ startResult' = "none"
        /\ UNCHANGED <<isRecording, recognition, currentAudioRef, inflight,
                       objectURLs, results>>
        /\ UNCHANGED pttUnused

\* audio.onended and audio.onerror, part_000 lines 203-216: the same body.
Ptt_AudioTerminal ==
    \E a \in audios, k \in {"audioended", "audioerror"} :
        /\ a.st = "playing"
        /\ IF k = "audioerror"
           THEN stimuli < MaxPttStimuli /\ stimuli' = stimuli + 1
           ELSE stimuli' = stimuli
        /\ audios' = audios \ {a}
        /\ objectURLs' = Revoke(objectURLs, a.t)
        /\ currentAudioRef' = 0
        /\ isAiSpeaking' = FALSE
        /\ lastEvent' = Ev(k, "")
        /\ startResult' = "none"
        /\ UNCHANGED <<isRecording, isResponding, recognition, inflight, results>>
        /\ UNCHANGED pttUnused

\* The events of the push-to-talk variant.  It starts in the state Init: not
\* recording, silent, the recognizer idle or missing.
PttNext ==
    \/ Ptt_toggleRecording
    \/ Ptt_OnResult
    \/ Ptt_OnError
    \/ Ptt_OnEnd
    \/ Ptt_FetchOk
    \/ Ptt_FetchFail
    \/ Ptt_PlayResolve
    \/ Ptt_PlayReject
    \/ Ptt_AudioTerminal

PttSpec == Init /\ [][PttNext]_vars

(***************************************************************************)
(* The voice-activity variant: the second component of                     *)
(* src/unnamed/part_000.  recognition.start() is called only by the        *)
(* interval callback of startVAD.                                          *)
(***************************************************************************)

\* The state the voice-activity model leaves alone.  No session is ever
\* started in it (see Vad_Tick), so the recognizer handlers, the dispatch and
\* the playback of lines 335-363 and 483-610 never run.
vadUnused == <<isAiSpeaking, isResponding, oldRecognitions, currentAudioRef,
               pendingInterruptionRef, isListeningRef, timers, inflight,
               testInflight, audios, objectURLs, terminals, results,
               lateTerminal, attempts, errorStarts, interrupted, dropped>>

\* What the interval callback of lines 398-414 captured from the render whose
\* startVAD created it.
Vad_Snap(lis, rec, sp, rs) == [lis |-> lis, rec |-> rec, sp |-> sp, rs |-> rs]

\* The threshold of line 405 and the averages a sample can have around it.
SPEECH_THRESHOLD == 30
Averages == {0, 30, 31, 255}

\* stopListening, part_000 lines 422-442.
Vad_stopListening ==
    /\ vadIntervals' = {iv \in vadIntervals : iv.id # vadIntervalRef}
    /\ vadIntervalRef' = 0
    /\ recognition' = Stop(recognition)
    /\ isListening' = FALSE
    /\ isRecording' = FALSE

\* toggleAssistant, part_000 lines 463-481, up to the await of getUserMedia in
\* startVAD (line 380).  startVAD is the one of the render of the toggle.
Vad_toggleAssistant ==
    /\ stimuli < MaxVadStimuli
    /\ stimuli' = stimuli + 1
    /\ IF recognition.st = "none" THEN
           /\ lastEvent' = Ev("toggle", "unsupported")
           /\ UNCHANGED <<isEnabled, isListening, isRecording, recognition,
                          vadIntervalRef, vadIntervals, micRequests>>
       ELSE IF isEnabled THEN
           /\ Vad_stopListening
           /\ isEnabled' = FALSE
           /\ lastEvent' = Ev("toggle", "disable")
           /\ UNCHANGED micRequests
       ELSE
           /\ isEnabled' = TRUE
           /\ isListening' = TRUE
           /\ micRequests' = micRequests \cup
                 {[id |-> stimuli + 1,
                   s |-> Vad_Snap(isListening, isRecording, isAiSpeaking,
                                  isResponding)]}
           /\ lastEvent' = Ev("toggle", "enable")
           /\ UNCHANGED <<isRecording, recognition, vadIntervalRef, vadIntervals>>
    /\ startResult' = "none"
    /\ UNCHANGED vadUnused

\* getUserMedia resolves: startVAD lines 381-416 set the interval and store its
\* id, over the id of an interval that is still running if there is one.
Vad_MicGranted ==
    \E q \in micRequests :
        /\ micRequests' = micRequests \ {q}
        /\ vadIntervals' = vadIntervals \cup {q}
        /\ vadIntervalRef' = q.id
        /\ lastEvent' = Ev("mic", "granted")
        /\ startResult' = "none"
        /\ UNCHANGED <<isEnabled, isListening, isRecording, recognition, stimuli>>
        /\ UNCHANGED vadUnused

\* getUserMedia rejects: the catch of lines 417-419.
Vad_MicDenied ==
    \E q \in micRequests :
        /\ stimuli < MaxVadStimuli
        /\ stimuli' = stimuli + 1
        /\ micRequests' = micRequests \ {q}
        /\ lastEvent' = Ev("mic", "denied")
        /\ startResult' = "none"
        /\ UNCHANGED <<isEnabled, isListening, isRecording, recognition,
                       vadIntervalRef, vadIntervals>>
        /\ UNCHANGED vadUnused

\* One run of an interval callback, lines 398-414, on a sample of the given
\* average.  start() on a recognizer that is not idle throws.
Vad_Tick ==
    \E iv \in vadIntervals, average \in Averages :
        /\ IF ~iv.s.lis \/ iv.s.rec \/ iv.s.sp \/ iv.s.rs THEN
               /\ startResult' = "none"
               /\ UNCHANGED <<isListening, isRecording, recognition>>
           ELSE IF average > SPEECH_THRESHOLD THEN
               /\ isListening' = FALSE
               /\ isRecording' = TRUE
               /\ recognition' = IF recognition.st = "idle"
                                 THEN [recognition EXCEPT !.st = "active"]
                                 ELSE recognition
               /\ startResult' = IF recognition.st = "idle" THEN "started"
                                 ELSE "AlreadyActive"
           ELSE
               /\ startResult' = "none"
               /\ UNCHANGED <<isListening, isRecording, recognition>>
        /\ lastEvent' = Ev("vad", IF average > SPEECH_THRESHOLD THEN "loud"
                                  ELSE "quiet")
        /\ UNCHANGED <<isEnabled, vadIntervalRef, vadIntervals, micRequests,
                       stimuli>>
        /\ UNCHANGED vadUnused

\* The events of the voice-activity variant, from the state Init.
VadNext ==
    \/ Vad_toggleAssistant
    \/ Vad_MicGranted
    \/ Vad_MicDenied
    \/ Vad_Tick

VadSpec == Init /\ [][VadNext]_vars

(***************************************************************************)
(* The auto-listening variant: src/unnamed/part_001.  Like the main        *)
(* component its effect depends on isEnabled, isAiSpeaking and             *)
(* isResponding, but it has no interruption flag, no verification or retry *)
(* timer, and restarts only from onerror, onend, onended and the toggle.   *)
(***************************************************************************)

\* The state the auto-listening variant does not have.
autoUnused == <<pendingInterruptionRef, isListeningRef, testInflight, terminals,
                lateTerminal, attempts, errorStarts, interrupted, dropped,
                vadVars>>

\* setTimeout(() => startListening(), d) of the render s.
Auto_Timer(k, s, d) == [k |-> k, s |-> s, d |-> d]

\* A pending callback can run next unless one set earlier has a delay that is
\* not longer.
Auto_CanFire(i) == \A j \in 1..(i - 1) : timers[j].d > timers[i].d

\* The sequence tms without its i-th element.
Auto_Without(tms, i) == SubSeq(tms, 1, i - 1) \o SubSeq(tms, i + 1, Len(tms))

\* startListening of the render s, part_001 lines 67-84.
Auto_startListening(s, rec, r) ==
    IF r.st = "none" \/ s.sp \/ s.rs \/ s.rec THEN
        [rec |-> rec, r |-> r, res |-> "none"]
    ELSE IF r.st = "idle" THEN
        [rec |-> TRUE, r |-> [r EXCEPT !.st = "active"], res |-> "started"]
    ELSE
        [rec |-> FALSE, r |-> r, res |-> "AlreadyActive"]

\* The render after a handler and the effect of part_001 lines 19-65.
Auto_Commit(en, sp, rs, rec, r, tms) ==
    LET changed == <<en, sp, rs>> # <<isEnabled, isAiSpeaking, isResponding>>
    IN  /\ isEnabled' = en
        /\ isAiSpeaking' = sp
        /\ isResponding' = rs
        /\ isRecording' = rec
        /\ recognition' = IF changed /\ r.st # "none"
                          THEN [st |-> "idle", h |-> Snap(en, sp, rs, rec)]
                          ELSE r
        /\ oldRecognitions' = IF changed /\ r.st \notin {"idle", "none"}
                              THEN oldRecognitions \cup {r.h}
                              ELSE oldRecognitions
        /\ timers' = tms

\* onresult, part_001 lines 28-35, and sendToBackend up to its await, lines
\* 138-167.  The recognizer is not continuous: the session ends after its result.
Auto_OnResult ==
    /\ recognition.st = "active"
    /\ stimuli < MaxStimuli
    /\ stimuli' = stimuli + 1
    /\ results' = results + 1
    /\ inflight' = inflight \cup {Dispatch(recognition.h, results + 1)}
    /\ Auto_Commit(isEnabled, isAiSpeaking, TRUE, FALSE,
                   [recognition EXCEPT !.st = "stopping"], timers)
    /\ lastEvent' = Ev("result", "")
    /\ startResult' = "none"
    /\ UNCHANGED <<currentAudioRef, audios, objectURLs>>
    /\ UNCHANGED autoUnused

\* onerror, part_001 lines 37-44; the end event follows.
Auto_OnError ==
    /\ recognition.st = "active"
    /\ stimuli < MaxStimuli
    /\ stimuli' = stimuli + 1
    /\ Auto_Commit(isEnabled, isAiSpeaking, isResponding, FALSE,
                   [recognition EXCEPT !.st = "stopping"],
                   IF recognition.h.en /\ ~recognition.h.sp
                   THEN Append(timers, Auto_Timer("onerror", recognition.h, 500))
                   ELSE timers)
    /\ lastEvent' = Ev("recerror", "")
    /\ startResult' = "none"
    /\ UNCHANGED <<currentAudioRef, inflight, audios, objectURLs, results>>
    /\ UNCHANGED autoUnused

\* The body of onend, part_001 lines 46-53, for handlers of render h.
Auto_OnEndTimers(h, tms) ==
    IF h.en /\ ~h.sp /\ ~h.rs
    THEN Append(tms, Auto_Timer("onend", h, 300))
    ELSE tms

\* onend on the recognizer held: after a result, an error or stop(), or when
\* the service ends a session in which nothing was heard.
Auto_OnEnd ==
    /\ \/ recognition.st = "stopping" /\ stimuli' = stimuli
       \/ recognition.st = "active" /\ stimuli < MaxStimuli
          /\ stimuli' = stimuli + 1
    /\ Auto_Commit(isEnabled, isAiSpeaking, isResponding, FALSE,
                   [recognition EXCEPT !.st = "idle"],
                   Auto_OnEndTimers(recognition.h, timers))
    /\ lastEvent' = Ev("recend", "")
    /\ startResult' = "none"
    /\ UNCHANGED <<currentAudioRef, inflight, audios, objectURLs, results>>
    /\ UNCHANGED autoUnused

\* onend of a recognizer that the effect cleanup stopped and replaced.
Auto_OnEndOld ==
    \E h \in oldRecognitions :
        /\ isRecording' = FALSE
        /\ timers' = Auto_OnEndTimers(h, timers)
        /\ oldRecognitions' = oldRecognitions \ {h}
        /\ lastEvent' = Ev("oldrecend", "")
        /\ startResult' = "none"
        /\ UNCHANGED <<isAiSpeaking, isResponding, isEnabled, recognition,
                       currentAudioRef, inflight, audios, objectURLs, stimuli,
                       results>>
        /\ UNCHANGED autoUnused

\* toggleAssistant, part_001 lines 105-136, with stopAiAudio of lines 86-103.
Auto_toggleAssistant ==
    /\ stimuli < MaxStimuli
    /\ stimuli' = stimuli + 1
    /\ IF recognition.st = "none" THEN
           /\ lastEvent' = Ev("toggle", "unsupported")
           /\ UNCHANGED <<isRecording, isAiSpeaking, isResponding, isEnabled,
                          recognition, oldRecognitions, timers, currentAudioRef,
                          audios, objectURLs>>
       ELSE IF isAiSpeaking \/ isResponding THEN
           /\ audios' = Pause(audios, currentAudioRef, "stopped")
           /\ objectURLs' = Revoke(objectURLs, currentAudioRef)
           /\ currentAudioRef' = 0
           /\ Auto_Commit(TRUE,
                          IF currentAudioRef # 0 THEN FALSE ELSE isAiSpeaking,
                          FALSE, isRecording, recognition,
                          Append(timers, Auto_Timer("interrupt", Cur, 100)))
           /\ lastEvent' = Ev("toggle", "interrupt")
       ELSE IF isEnabled THEN
           /\ Auto_Commit(FALSE, isAiSpeaking, isResponding, FALSE,
                          Stop(recognition), timers)
           /\ lastEvent' = Ev("toggle", "disable")
           /\ UNCHANGED <<currentAudioRef, audios, objectURLs>>
       ELSE
           /\ Auto_Commit(TRUE, isAiSpeaking, isResponding, isRecording,
                          recognition,
                          Append(timers, Auto_Timer("enable", Cur, 100)))
           /\ lastEvent' = Ev("toggle", "enable")
           /\ UNCHANGED <<currentAudioRef, audios, objectURLs>>
    /\ startResult' = "none"
    /\ UNCHANGED <<inflight, results>>
    /\ UNCHANGED autoUnused

\* A pending setTimeout callback runs: startListening() of its render.
Auto_FireTimer ==
    \E i \in 1..Len(timers) :
        /\ Auto_CanFire(i)
        /\ LET o == Auto_startListening(timers[i].s, isRecording, recognition)
           IN  /\ Auto_Commit(isEnabled, isAiSpeaking, isResponding, o.rec, o.r,
                              Auto_Without(timers, i))
               /\ startResult' = o.res
        /\ lastEvent' = Ev("timer", timers[i].k)
        /\ UNCHANGED <<currentAudioRef, inflight, audios, objectURLs, stimuli,
                       results>>
        /\ UNCHANGED autoUnused

\* The production fetch resolves with response.ok: sendToBackend lines 174-198
\* and playAudioBlob lines 211-240 of the render that heard the transcript.
Auto_FetchOk ==
    \E d \in inflight, ct \in ContentTypes :
        /\ inflight' = inflight \ {d}
        /\ audios' = Pause(audios, currentAudioRef, "stopped")
                     \cup {Audio(d.s, d.t, "starting")}
        /\ objectURLs' = objectURLs @@ (d.t :> 0)
        /\ currentAudioRef' = d.t
        /\ Auto_Commit(isEnabled, TRUE, FALSE,
                       IF d.s.rec THEN FALSE ELSE isRecording,
                       IF d.s.rec THEN Stop(recognition) ELSE recognition,
                       timers)
        /\ lastEvent' = Ev("reply", ct)
        /\ startResult' = "none"
        /\ UNCHANGED <<stimuli, results>>
        /\ UNCHANGED autoUnused

\* The production fetch rejects or returns an error status: lines 199-209.
Auto_FetchFail ==
    \E d \in inflight :
        /\ stimuli < MaxStimuli
        /\ stimuli' = stimuli + 1
        /\ inflight' = inflight \ {d}
        /\ Auto_Commit(isEnabled, isAiSpeaking, FALSE, isRecording, recognition,
                       timers)
        /\ lastEvent' = Ev("replyfail", "")
        /\ startResult' = "none"
        /\ UNCHANGED <<currentAudioRef, audios, objectURLs, results>>
        /\ UNCHANGED autoUnused

\* audio.play() resolves: the handlers of lines 242-260 are attached and
\* sendToBackend reaches its finally block.
Auto_PlayResolve ==
    \E a \in audios :
        /\ a.st = "starting"
        /\ audios' = (audios \ {a}) \cup {[a EXCEPT !.st = "playing"]}
        /\ Auto_Commit(isEnabled, isAiSpeaking, FALSE, isRecording, recognition,
                       timers)
        /\ lastEvent' = Ev("playing", "")
        /\ startResult' = "none"
        /\ UNCHANGED <<currentAudioRef, inflight, objectURLs, stimuli, results>>
        /\ UNCHANGED autoUnused

\* The catch of playAudioBlob, lines 261-264, and the finally of sendToBackend.
Auto_PlayCatch(a, why) ==
    /\ audios' = audios \ {a}
    /\ Auto_Commit(isEnabled, FALSE, FALSE, isRecording, recognition, timers)
    /\ lastEvent' = Ev("playreject", why)
    /\ startResult' = "none"
    /\ UNCHANGED <<currentAudioRef, inflight, objectURLs, results>>
    /\ UNCHANGED autoUnused

\* audio.play() rejects because the element was paused while it was pending.
Auto_PlayAbort ==
    \E a \in audios :
        /\ a.st = "aborting"
        /\ stimuli' = stimuli
        /\ Auto_PlayCatch(a, "abort")

\* audio.play() rejects because the payload cannot be played.
Auto_PlayReject ==
    \E a \in audios :
        /\ a.st = "starting"
        /\ stimuli < MaxStimuli
        /\ stimuli' = stimuli + 1
        /\ Auto_PlayCatch(a, "")

\* audio.onended, part_001 lines 242-253.
Auto_AudioEnded ==
    \E a \in audios :
        /\ a.st = "playing"
        /\ audios' = audios \ {a}
        /\ objectURLs' = Revoke(objectURLs, a.t)
        /\ currentAudioRef' = 0
        /\ Auto_Commit(isEnabled, FALSE, isResponding, isRecording, recognition,
                       IF a.s.en
                       THEN Append(timers, Auto_Timer("ended", a.s, 500))
                       ELSE timers)
        /\ lastEvent' = Ev("audioended", "")
        /\ startResult' = "none"
        /\ UNCHANGED <<inflight, stimuli, results>>
        /\ UNCHANGED autoUnused

\* audio.onerror, part_001 lines 255-260.
Auto_AudioError ==
    \E a \in audios :
        /\ a.st = "playing"
        /\ stimuli < MaxStimuli
        /\ stimuli' = stimuli + 1
        /\ audios' = audios \ {a}
        /\ objectURLs' = Revoke(objectURLs, a.t)
        /\ currentAudioRef' = 0
        /\ Auto_Commit(isEnabled, FALSE, isResponding, isRecording, recognition,
                       timers)
        /\ lastEvent' = Ev("audioerror", "")
        /\ startResult' = "none"
        /\ UNCHANGED <<inflight, results>>
        /\ UNCHANGED autoUnused

\* The events of the auto-listening variant, from the state Init.
AutoNext ==
    \/ Auto_toggleAssistant
    \/ Auto_FireTimer
    \/ Auto_OnResult
    \/ Auto_OnError
    \/ Auto_OnEnd
    \/ Auto_OnEndOld
    \/ Auto_FetchOk
    \/ Auto_FetchFail
    \/ Auto_PlayResolve
    \/ Auto_PlayAbort
    \/ Auto_PlayReject
    \/ Auto_AudioEnded
    \/ Auto_AudioError

\* Timers fire, a stopped recognizer ends, a request is answered, play()
\* settles and a playing clip ends.
AutoFairness ==
    /\ WF_vars(Auto_FireTimer)
    /\ WF_vars(Auto_OnEnd /\ recognition.st = "stopping")
    /\ WF_vars(Auto_OnEndOld)
    /\ WF_vars(Auto_FetchOk)
    /\ WF_vars(Auto_PlayResolve)
    /\ WF_vars(Auto_PlayAbort)
    /\ WF_vars(Auto_AudioEnded)

AutoFairSpec == Init /\ [][AutoNext]_vars /\ AutoFairness

(***************************************************************************)
(* Claims.                                                                 *)
(***************************************************************************)

\* The clips that are sounding: play() was called and no pause, end or error followed.
Sounding == {a \in audios : a.st \in {"starting", "playing"}}

\* The step starts a recognition session.
StartsSession == recognition.st # "active" /\ recognition'.st = "active"

\* The step starts a playback.
StartsPlayback == \E a \in audios' : a.st = "starting" /\ a \notin audios

\* The step sends a transcript to the production endpoint.
StartsDispatch == \E d \in inflight' : d \notin inflight

\* C1: right after a disable command the session is Idle, and while the assistant
\* stays disabled no step starts a recognition session, a dispatch or a playback,
\* timers set before the disable included.
C1_IdleUntilEnable ==
    [][ /\ lastEvent' = Ev("toggle", "disable") =>
              ~isEnabled' /\ ~isRecording' /\ ~isResponding' /\ ~isAiSpeaking'
        /\ ~isEnabled /\ ~isEnabled' =>
              ~StartsSession /\ ~StartsDispatch /\ ~StartsPlayback ]_vars

\* C2: at most one clip is sounding or held, at most one recognition session is
\* active, and start() is never called on a recognizer whose session is active.
C2_AtMostOne ==
    /\ Cardinality({a.t : a \in Sounding} \cup ({currentAudioRef} \ {0})) <= 1
    /\ Cardinality({h \in {recognition.h} : recognition.st = "active"}) <= 1
    /\ ~(startResult = "AlreadyActive" /\ recognition.st = "active")

\* C3: at most one request to the production endpoint is in flight.
C3_OneInFlight == Cardinality(inflight) <= 1

\* The step is a voice interruption: a transcript delivered to the handlers of a
\* render in which the AI was speaking.
VoiceInterruption == lastEvent' = Ev("result", "") /\ recognition.h.sp

\* C4: a terminal event emitted by a clip that a voice interruption stopped changes
\* neither the session flags, nor the playback handle, nor the scheduled restarts.
C4_LateTerminalDiscarded ==
    [][ (/\ lastEvent'.ev \in {"lateended", "lateerror"}
         /\ \E a \in audios : a.st = "interrupted" /\ a \notin audios')
        => UNCHANGED <<isAiSpeaking, isResponding, isRecording, currentAudioRef,
                       timers>> ]_vars

\* C5: the response of a dispatch sent while enabled that arrives while the
\* assistant is disabled starts no playback, sets no flag and schedules no restart.
C5_ReplyAfterDisable ==
    [][ (/\ lastEvent'.ev \in {"reply", "replyfail"}
         /\ ~isEnabled
         /\ \E d \in inflight : d \notin inflight' /\ d.s.en)
        => /\ ~StartsPlayback
           /\ ~isAiSpeaking' /\ ~isResponding' /\ ~isEnabled'
           /\ timers' = timers ]_vars

C8_OnePlayOneRestart ==
    [][ /\ lastEvent' = Ev("reply", "")
           => \E d \in inflight :
                 /\ inflight' = inflight \ {d}
                 /\ {a \in audios' : a \notin audios /\ a.st = "starting"}
                       = {Audio(d.s, d.t, "starting")}
        /\ (/\ lastEvent' \in {Ev("timer", "ended"), Ev("timer", "audioErr")}
            /\ isEnabled /\ ~isAiSpeaking /\ ~isResponding
            /\ recognition.st = "idle")
           => StartsSession ]_vars

\* A restart of kind k is pending.
RestartSet(k) == \E i \in 1..Len(timers) : timers[i].k = k

\* C9: a natural end of playback in an enabled session clears isAiSpeaking and the
\* handle without starting capture in the same step, and once it has set its
\* 300 ms restart a recognition session becomes active, unless the assistant is
\* disabled first.
C9_EndedRestarts ==
    /\ [][ (lastEvent' = Ev("audioended", "") /\ isEnabled)
           => ~isAiSpeaking' /\ currentAudioRef' = 0 /\ ~StartsSession ]_vars
    /\ (lastEvent = Ev("audioended", "") /\ isEnabled /\ RestartSet("ended"))
          ~> (recognition.st = "active" \/ ~isEnabled)

\* C10: a failed dispatch in an enabled session starts no playback, clears
\* isResponding and leaves the assistant enabled, and once it has set its 300 ms
\* restart a recognition session becomes active, unless the assistant is disabled
\* first.
C10_FailRestarts ==
    /\ [][ (lastEvent' = Ev("replyfail", "") /\ isEnabled)
           => ~StartsPlayback /\ ~isResponding' /\ isEnabled' ]_vars
    /\ (lastEvent = Ev("replyfail", "") /\ isEnabled /\ RestartSet("dispatchErr"))
          ~> (recognition.st = "active" \/ ~isEnabled)

\* C11: a start() that throws because the recognition session is active leaves
\* isRecording, isListeningRef, isEnabled, isResponding and isAiSpeaking as they
\* were, and the session stays active.
C11_AlreadyActiveNoChange ==
    [][ (startResult' = "AlreadyActive" /\ recognition.st = "active")
        => /\ UNCHANGED <<isRecording, isListeningRef, isEnabled, isResponding,
                          isAiSpeaking>>
           /\ recognition'.st = "active" ]_vars

\* C12: isEnabled goes from true to false only in the disable command.
C12_OnlyDisableEnds ==
    [][ (isEnabled /\ ~isEnabled') => lastEvent' = Ev("toggle", "disable") ]_vars

\* C12 witness: a recognizer error has been handled and the assistant is enabled.
C12_Witness == lastEvent = Ev("recerror", "") /\ isEnabled /\ ~isRecording

\* C13: when the retry start fails too, the session is forced to Idle.
C13_SecondFailureFatal ==
    [][ (lastEvent' = Ev("timer", "retry") /\ startResult' = "AlreadyActive")
        => ~isEnabled' /\ ~isRecording' ]_vars

\* C20: Dispatching and Speaking are never both true, and while the assistant is
\* disabled none of isRecording, isResponding, isAiSpeaking is true.
C20_OneSessionState ==
    /\ ~(isResponding /\ isAiSpeaking)
    /\ ~isEnabled => (~isRecording /\ ~isResponding /\ ~isAiSpeaking)

\* C19: without a speech recognizer the assistant is never enabled and nothing is
\* captured, dispatched, played or scheduled, whatever is toggled.
C19_NoRecognizerNoSession ==
    recognition.st = "none"
    => /\ ~isEnabled /\ ~isRecording /\ ~isResponding /\ ~isAiSpeaking
       /\ inflight = {} /\ audios = {} /\ timers = <<>>
       /\ currentAudioRef = 0 /\ results = 0

\* C19 witness: two toggle commands were given without a recognizer.
C19_Witness ==
    recognition.st = "none" /\ lastEvent = Ev("toggle", "unsupported") /\ stimuli = 2

\* C14: start() is called at most twice in a row without a command or a transcript
\* in between.
C14_RestartsBounded == attempts <= 2

\* C16: the object URL of every clip is revoked at most once, and it is revoked
\* once the clip neither sounds nor is held as the playback handle.
C16_RevokedOnce ==
    \A t \in DOMAIN objectURLs :
        /\ objectURLs[t] <= 1
        /\ objectURLs[t] = 0
           => \/ \E a \in Sounding : a.t = t
              \/ currentAudioRef = t

C15_PlaybackFaultRecovers ==
    /\ [][ (/\ lastEvent'.ev \in {"playreject", "audioerror"}
            /\ isEnabled
            /\ \E a \in Sounding : a \notin audios')
           => ~isAiSpeaking' /\ currentAudioRef' = 0 /\ isEnabled' ]_vars
    /\ (/\ lastEvent.ev \in {"playreject", "audioerror"}
        /\ isEnabled
        /\ (RestartSet("playErr") \/ RestartSet("audioErr")))
          ~> (recognition.st = "active" \/ ~isEnabled)

\* C18: the request to the test endpoint, whether it succeeds, fails or never
\* settles, is not observed by the session: the step in which it settles changes
\* no flag, handle, timer, recognizer, clip or production request, and a dispatch
\* starts it without waiting for it.
C18_TestEndpointUnobserved ==
    [][ /\ (testInflight' # testInflight /\ ~StartsDispatch)
           => UNCHANGED <<isEnabled, isRecording, isResponding, isAiSpeaking,
                          currentAudioRef, timers, recognition, oldRecognitions,
                          pendingInterruptionRef, isListeningRef, inflight, audios,
                          objectURLs>>
        /\ StartsDispatch
           => \E d \in inflight' : d \notin inflight /\ d.t \in testInflight' ]_vars

\* C18 witness: the test request of a dispatch has settled while its production
\* request is pending, and that of an earlier dispatch never settled.
C18_Witness ==
    /\ \E d \in inflight : d.t \notin testInflight
    /\ \E t \in testInflight : \A d \in inflight : d.t # t

\* C21: stopAiAudio changes nothing when no handle is held, and a second call right
\* after a first leaves what the first left: clip paused, handle cleared, URL
\* revoked once, isAiSpeaking false.
C21_StopIdempotent ==
    LET once == stopAiAudio(PlaybackState)
    IN  /\ currentAudioRef = 0 => once = PlaybackState
        /\ stopAiAudio(once) = once
        /\ once.cur = 0
        /\ \A a \in once.as : a.t = currentAudioRef => a \notin Sounding
        /\ currentAudioRef # 0 => ~once.sp

\* C21 witness: a manual interrupt has just stopped a clip that was playing.
C21_Witness ==
    /\ lastEvent = Ev("toggle", "interrupt")
    /\ currentAudioRef = 0
    /\ \E a \in audios : a.st = "stopped"

\* C22: after an enable command given in Idle with a recognizer, a recognition
\* session is active in an enabled session at some later moment, unless another
\* command is given first.
C22_EnableListens ==
    (/\ lastEvent = Ev("toggle", "enable")
     /\ ~isRecording /\ ~isResponding /\ ~isAiSpeaking)
      ~> \/ isEnabled /\ recognition.st = "active"
         \/ lastEvent.ev = "toggle" /\ lastEvent.k # "enable"

\* C22 witness: the timer of the enable command has started the session.
C22_Witness ==
    /\ lastEvent = Ev("timer", "enable")
    /\ startResult = "started"
    /\ isEnabled /\ isRecording /\ recognition.st = "active"

\* C23: from the voice interruption until the delayed sendToBackend of the
\* interrupting transcript has been entered, pendingInterruptionRef is set.
C23_FlagHeldUntilDispatch == RestartSet("send") => pendingInterruptionRef

\* C27: when the verification timer fires while the session started by its
\* startListening call is active, start() is not called again.
C27_VerifyOnlyIfNotActive ==
    [][ (lastEvent' = Ev("timer", "verify") /\ recognition.st = "active")
        => startResult' = "none" ]_vars

\* C29: the playback handle is null whenever no clip is sounding.
C29_HandleNullWhenSilent == Sounding = {} => currentAudioRef = 0

\* C24: the error event of a session and the end event that follows it lead to
\* at most one start() call by their restart timers.  The count follows an
\* error handled while no other restart timer was pending, until a command, a
\* transcript or the end event of another session.
C24_OneStartPerError == errorStarts <= 1

\* C30: every successful response, whatever its content type, is handed to
\* playback exactly once: the step creates one audio element for the reply to
\* the transcript of the dispatch that ended, and the handle points at it.
C30_EveryReplyPlayedOnce ==
    [][ lastEvent'.ev = "reply" =>
          \E d \in inflight \ inflight' :
              /\ {a \in audios' : a \notin audios /\ a.st = "starting"}
                     = {Audio(d.s, d.t, "starting")}
              /\ currentAudioRef' = d.t ]_vars

\* C30 witness: a response without an audio content type has arrived and its
\* clip is starting.
C30_Witness ==
    /\ lastEvent = Ev("reply", "other")
    /\ \E a \in audios : a.t = currentAudioRef /\ a.st = "starting"

\* C25: the response of a request that was in flight when the user interrupted
\* by the toggle starts no playback and changes neither the session flags nor
\* the pending timers.
C25_InterruptedReplyIgnored ==
    [][ (/\ lastEvent'.ev \in {"reply", "replyfail"}
         /\ \E d \in inflight \ inflight' : d.t \in interrupted)
        => /\ ~StartsPlayback
           /\ UNCHANGED <<isEnabled, isAiSpeaking, isResponding, isRecording,
                          currentAudioRef, timers>> ]_vars

C28_ErrorRecovers ==
    (lastEvent = Ev("recerror", "") /\ isEnabled /\ ~pendingInterruptionRef)
      ~> \/ recognition.st = "active" /\ isRecording
         \/ lastEvent.ev \in {"toggle", "result"}

\* C33: a toggle while the AI is speaking or a dispatch is in flight leaves the
\* assistant enabled with isResponding and isAiSpeaking false, no clip sounding
\* and no handle held; when its 300 ms timer fires pendingInterruptionRef is
\* cleared and a recognition session is active.
C33_ManualInterruptResumes ==
    [][ /\ lastEvent' = Ev("toggle", "interrupt")
           => /\ isEnabled' /\ ~isResponding' /\ ~isAiSpeaking'
              /\ currentAudioRef' = 0
              /\ \A a \in audios' : a.st \notin {"starting", "playing"}
        /\ lastEvent' = Ev("timer", "interrupt")
           => /\ ~pendingInterruptionRef'
              /\ recognition'.st = "active" ]_vars

\* C34: isAiSpeaking is true exactly when a playback handle is held.
C34_SpeakingIffHandle == isAiSpeaking <=> currentAudioRef # 0

C36_NoStartWhileBusy ==
    [][ (isAiSpeaking \/ isResponding) => startResult' # "started" ]_vars

\* C37: whenever pendingInterruptionRef is set it is eventually cleared.
C37_FlagEventuallyCleared == pendingInterruptionRef ~> ~pendingInterruptionRef

\* C37 witness: the flag set by a manual interrupt has been cleared by the
\* interrupt's timer after the response of the interrupted request arrived.
C37_Witness ==
    /\ lastEvent = Ev("timer", "interrupt")
    /\ ~pendingInterruptionRef
    /\ \E a \in audios : a.t \in interrupted

\* C38: while the assistant is enabled and the user issues no further command,
\* it is always eventually in a state where a recognition session is active, a
\* dispatch is in flight or a clip is sounding.
C38_NeverStuck ==
    isEnabled ~> \/ recognition.st = "active"
                 \/ inflight # {}
                 \/ Sounding # {}
                 \/ lastEvent.ev = "toggle"

\* C39: in the push-to-talk variant a recognition session starts only in a
\* toggle made while the AI is not speaking; a toggle while the AI is speaking
\* stops the audio and leaves the recognizer and isRecording alone.
C39_StartOnlyOnToggle ==
    [][ /\ (StartsSession \/ startResult' # "none" \/ (~isRecording /\ isRecording'))
           => lastEvent' = Ev("toggle", "start")
        /\ lastEvent' = Ev("toggle", "interrupt")
           => /\ isAiSpeaking /\ ~isAiSpeaking'
              /\ currentAudioRef' = 0
              /\ Sounding' = {}
              /\ recognition' = recognition
              /\ isRecording' = isRecording ]_vars

\* C39 witness: the user has interrupted a playing reply with the toggle and
\* no recording was started.
C39_Witness ==
    /\ lastEvent = Ev("toggle", "interrupt")
    /\ recognition.st = "idle" /\ ~isRecording
    /\ \E a \in audios : a.st = "stopped"

\* C31: in the voice-activity variant, a sample above the speech threshold
\* taken while the assistant is enabled and listening, with no recording,
\* dispatch or playback in progress, starts a recognition session and moves
\* from Listening to Recording.
C31_LoudSampleStartsRecording ==
    [][ (/\ lastEvent' = Ev("vad", "loud")
         /\ isEnabled /\ isListening
         /\ ~isRecording /\ ~isAiSpeaking /\ ~isResponding)
        => /\ recognition'.st = "active"
           /\ ~isListening'
           /\ isRecording' ]_vars

\* C32: in the auto-listening variant, after a dispatch has failed or a reply
\* could not be played while the assistant is enabled, a recognition session is
\* eventually active again unless the user toggles.
C32_FailureReturnsToListening ==
    (lastEvent \in {Ev("replyfail", ""), Ev("playreject", ""),
                    Ev("audioerror", "")} /\ isEnabled)
      ~> \/ recognition.st = "active"
         \/ lastEvent.ev = "toggle"

====
